---- MODULE Spec2Model ----
(***************************************************************************)
(* The Constellation of src/components/main/constellation.rs: the pipeline *)
(* registry, the frame trees, the navigation context, the pending frame    *)
(* changes and the SetIds handshake with the compositor.                   *)
(*                                                                         *)
(* A FrameTree node is a record                                            *)
(*   [addr, pipeline, parent, children]                                    *)
(* where addr is the identity of the @mut box that holds the node,         *)
(* pipeline is the PipelineId of the shared @mut Pipeline, parent is an    *)
(* Option of a PipelineId and children is the sequence of child nodes.     *)
(* An Option is a sequence of length 0 (None) or 1 (Some).                 *)
(***************************************************************************)
EXTENDS Integers, Sequences, FiniteSets

\* Bound on the number of pipelines the constellation creates in one run.
MaxPipelines == 4

VARIABLES
    pipelines,            \* Constellation.pipelines: the ids registered in the HashMap
    heap,                 \* the @mut Pipeline objects, by PipelineId
    navigation_context,   \* Constellation.navigation_context
    next_pipeline_id,     \* Constellation.next_pipeline_id
    pending_frames,       \* Constellation.pending_frames
    next_addr,            \* the next fresh @mut FrameTree box
    pc,                   \* "recv" | "set_ids" | "stopped" | "failed"
    request,              \* the Msg being handled (the last one handled when pc = "recv")
    frame_tree,           \* set_ids: the tree being published while blocked on port.recv()
    in_grant,             \* whether set_ids was entered from grant_paint_permission
    compositor_chan,      \* SetIds messages sent and not yet taken by the compositor
    ack,                  \* a reply is waiting on the port of set_ids
    sent,                 \* what the handler of `request` has emitted, in order
    failure,              \* the message of fail!/expect, "" while the task lives
    trail                 \* history: the context before a Back that nothing but a
                          \* Forward has followed, see Trail

vars == <<pipelines, heap, navigation_context, next_pipeline_id, pending_frames,
          next_addr, pc, request, frame_tree, in_grant, compositor_chan, ack,
          sent, failure, trail>>

None == <<>>
Some(x) == <<x>>
is_some(o) == Len(o) = 1
is_none(o) == Len(o) = 0

----------------------------------------------------------------------------
(* FrameTree *)

RECURSIVE FrameTree_contains(_, _)
FrameTree_contains(t, id) ==
    \/ t.pipeline = id
    \/ \E i \in 1..Len(t.children) : FrameTree_contains(t.children[i], id)

\* find_mut: the node itself, else the first child (in order) that finds one.
RECURSIVE find_mut(_, _), find_first(_, _)
find_mut(t, id) ==
    IF t.pipeline = id THEN Some(t) ELSE find_first(t.children, id)
find_first(cs, id) ==
    IF cs = <<>> THEN None
    ELSE LET r == find_mut(Head(cs), id)
         IN IF is_some(r) THEN r ELSE find_first(Tail(cs), id)

\* The pipelines of the nodes FrameTreeIterator yields, in the order it yields
\* them: the stack is popped from its end, so the last child comes first.
RECURSIVE FrameTree_iter(_), iter_stack(_)
FrameTree_iter(t) == <<t.pipeline>> \o iter_stack(t.children)
iter_stack(cs) ==
    IF cs = <<>> THEN <<>>
    ELSE FrameTree_iter(cs[Len(cs)]) \o iter_stack(SubSeq(cs, 1, Len(cs) - 1))

Range(s) == {s[i] : i \in 1..Len(s)}

\* The set of pipelines of a tree.
Pipelines(t) == Range(FrameTree_iter(t))

RECURSIVE Size(_), SizeAll(_)
Size(t) == 1 + SizeAll(t.children)
SizeAll(cs) == IF cs = <<>> THEN 0 ELSE Size(Head(cs)) + SizeAll(Tail(cs))

\* clone that does not copy the parent of a node.
RECURSIVE FrameTree_clone_orphans(_, _)
FrameTree_clone_orphans(t, addr) ==
    [addr |-> addr, pipeline |-> t.pipeline, parent |-> None,
     children |-> [i \in 1..Len(t.children) |->
                      FrameTree_clone_orphans(t.children[i],
                          addr + 1 + SizeAll(SubSeq(t.children, 1, i - 1)))]]

\* clone that copies the root and shares the boxes of the children.
FrameTree_clone_shallow(t, addr) == [t EXCEPT !.addr = addr]

\* impl Clone for FrameTree: new boxes for the nodes, the same Pipelines.
\* The clone's boxes are addr, addr + 1, ...
RECURSIVE FrameTree_clone(_, _), clone_children(_, _)
FrameTree_clone(t, addr) ==
    [addr |-> addr, pipeline |-> t.pipeline, parent |-> t.parent,
     children |-> clone_children(t.children, addr + 1)]
clone_children(cs, addr) ==
    IF cs = <<>> THEN <<>>
    ELSE <<FrameTree_clone(Head(cs), addr)>>
         \o clone_children(Tail(cs), addr + Size(Head(cs)))

\* replace_child: [replaced, tree]; replaced is is_left() of the Either.
RECURSIVE replace_child(_, _, _), replace_in(_, _, _)
replace_child(t, id, new_child) ==
    LET r == replace_in(t.children, id, new_child)
    IN [replaced |-> r.replaced, tree |-> [t EXCEPT !.children = r.children]]
replace_in(cs, id, new_child) ==
    IF cs = <<>> THEN [replaced |-> FALSE, children |-> <<>>]
    ELSE LET child == Head(cs) IN
         IF child.pipeline = id
         THEN [replaced |-> TRUE,
               children |-> <<[new_child EXCEPT !.parent = child.parent]>> \o Tail(cs)]
         ELSE LET r == replace_child(child, id, new_child) IN
              IF r.replaced
              THEN [replaced |-> TRUE, children |-> <<r.tree>> \o Tail(cs)]
              ELSE LET rest == replace_in(Tail(cs), id, new_child)
                   IN [replaced |-> rest.replaced,
                       children |-> <<child>> \o rest.children]

\* to_sendable: the detached snapshot, without boxes and parents.
RECURSIVE to_sendable(_), sendable_children(_)
to_sendable(t) ==
    [pipeline |-> t.pipeline, children |-> sendable_children(t.children)]
sendable_children(cs) ==
    IF cs = <<>> THEN <<>>
    ELSE <<to_sendable(Head(cs))>> \o sendable_children(Tail(cs))

RECURSIVE SendableFrameTree_contains(_, _)
SendableFrameTree_contains(t, id) ==
    \/ t.pipeline = id
    \/ \E i \in 1..Len(t.children) : SendableFrameTree_contains(t.children[i], id)

\* push that appends the child twice.
RECURSIVE push_child_twice(_, _, _)
push_child_twice(t, id, child) ==
    IF t.pipeline = id THEN [t EXCEPT !.children = @ \o <<child, child>>]
    ELSE LET holds == {i \in 1..Len(t.children) : FrameTree_contains(t.children[i], id)}
         IN [t EXCEPT !.children =
                [i \in 1..Len(@) |->
                    IF i \in holds /\ \A j \in holds : i <= j
                    THEN push_child_twice(@[i], id, child) ELSE @[i]]]

\* frame_tree.children.push(child) through the pointer find_mut(id) returned.
RECURSIVE push_child(_, _, _), push_first(_, _, _)
push_child(t, id, child) ==
    IF t.pipeline = id THEN [t EXCEPT !.children = Append(@, child)]
    ELSE [t EXCEPT !.children = push_first(@, id, child)]
push_first(cs, id, child) ==
    IF cs = <<>> THEN <<>>
    ELSE IF FrameTree_contains(Head(cs), id)
         THEN <<push_child(Head(cs), id, child)>> \o Tail(cs)
         ELSE <<Head(cs)>> \o push_first(Tail(cs), id, child)

NewFrameTree(addr, pipeline, parent) ==
    [addr |-> addr, pipeline |-> pipeline, parent |-> parent, children |-> <<>>]

----------------------------------------------------------------------------
(* NavigationContext *)

NavigationContext_new == [previous |-> <<>>, next |-> <<>>, current |-> None]

Pop(s) == SubSeq(s, 1, Len(s) - 1)
Last(s) == s[Len(s)]

\* back without the push of the current tree onto next.
back_dropping_current(nc) ==
    [previous |-> Pop(nc.previous),
     next     |-> nc.next,
     current  |-> Some(Last(nc.previous))]

back(nc) ==
    [previous |-> Pop(nc.previous),
     next     |-> Append(nc.next, nc.current[1]),
     current  |-> Some(Last(nc.previous))]

\* forward that pops next without making its top the current tree.
forward_keeping_current(nc) ==
    [previous |-> nc.previous,
     next     |-> Pop(nc.next),
     current  |-> nc.current]

forward(nc) ==
    [previous |-> Append(nc.previous, nc.current[1]),
     next     |-> Pop(nc.next),
     current  |-> Some(Last(nc.next))]

\* load: the context after it; the evicted trees are nc.next.
load(nc, t) ==
    [previous |-> IF is_some(nc.current) THEN Append(nc.previous, nc.current[1])
                  ELSE nc.previous,
     next     |-> <<>>,
     current  |-> Some(t)]

\* The trees of the context in the order find_all and contains chain them.
all_frames(nc) == nc.previous \o nc.current \o nc.next

NavigationContext_contains(nc, pipeline_id) ==
    \E i \in 1..Len(all_frames(nc)) : FrameTree_contains(all_frames(nc)[i], pipeline_id)

----------------------------------------------------------------------------
(* Pipeline: pipeline.rs is not part of the sources; its operations follow  *)
(* the data model of the specification.                                    *)
(* parsed_iframe is history: it records that LoadIframeUrlMsg created the  *)
(* pipeline.                                                               *)

Pipeline_create ==
    [url |-> FALSE, navigation_type |-> "None", paint |-> FALSE,
     exited |-> FALSE, script_only |-> FALSE, parsed_iframe |-> FALSE]

Pipeline_load(p, navigation_type) ==
    [p EXCEPT !.url = TRUE, !.navigation_type = navigation_type]

Pipeline_execute(p) == [p EXCEPT !.url = TRUE, !.script_only = TRUE]

Pipeline_reload(p, navigation_type) ==
    IF p.url THEN Pipeline_load(p, navigation_type) ELSE p

\* An entry of `sent`.
Ev(op, id) == [op |-> op, id |-> id]
EvSetIds(t) == [op |-> "SetIds", id |-> t.pipeline, tree |-> to_sendable(t)]

\* One entry per element of ids.
Evs(op, ids) == [i \in 1..Len(ids) |-> Ev(op, ids[i])]

----------------------------------------------------------------------------
Init ==
    /\ pipelines = {}
    /\ heap = <<>>
    /\ navigation_context = NavigationContext_new
    /\ next_pipeline_id = 0
    /\ pending_frames = <<>>
    /\ next_addr = 0
    /\ pc = "recv"
    /\ request = [msg |-> "none", id |-> 0, js |-> FALSE, direction |-> ""]
    /\ frame_tree = None
    /\ in_grant = FALSE
    /\ compositor_chan = <<>>
    /\ ack = FALSE
    /\ sent = <<>>
    /\ failure = ""
    /\ trail = [stage |-> "", nc |-> NavigationContext_new]

----------------------------------------------------------------------------
(* Constellation *)

Ready == pc = "recv"

\* trail after the handler of a message: "back" with the context as it was
\* before a Navigate(Back) that found a previous page, "forward" with that same
\* context when a Navigate(Forward) comes right after it, and empty otherwise.
Trail(msg, direction) ==
    IF msg = "NavigateMsg" /\ direction = "Back" /\ navigation_context.previous # <<>>
    THEN [stage |-> "back", nc |-> navigation_context]
    ELSE IF msg = "NavigateMsg" /\ direction = "Forward" /\ trail.stage = "back"
    THEN [stage |-> "forward", nc |-> trail.nc]
    ELSE [stage |-> "", nc |-> NavigationContext_new]

Request(msg, id, js, direction) ==
    [msg |-> msg, id |-> id, js |-> js, direction |-> direction]

\* heap with the Pipeline object id set to p.
Store(h, id, p) == [i \in DOMAIN h \cup {id} |-> IF i = id THEN p ELSE h[i]]

\* heap after f is applied to the Pipeline of every id in ids.
RevokeAll(h, ids) == [i \in DOMAIN h |-> IF i \in ids THEN [h[i] EXCEPT !.paint = FALSE] ELSE h[i]]
GrantAll(h, ids)  == [i \in DOMAIN h |-> IF i \in ids THEN [h[i] EXCEPT !.paint = TRUE] ELSE h[i]]
ReloadAll(h, ids, navigation_type) ==
    [i \in DOMAIN h |-> IF i \in ids THEN Pipeline_reload(h[i], navigation_type) ELSE h[i]]
ExitAll(h, ids)   == [i \in DOMAIN h |-> IF i \in ids THEN [h[i] EXCEPT !.exited = TRUE] ELSE h[i]]

\* fail!, or expect/unwrap on None: the task dies where it stands, and no
\* handler has emitted anything by then.
Fail(message) ==
    /\ pc' = "failed"
    /\ failure' = message
    /\ sent' = <<>>
    /\ UNCHANGED <<pipelines, heap, navigation_context, next_pipeline_id,
                   pending_frames, next_addr, frame_tree, in_grant,
                   compositor_chan, ack>>

\* set_ids that tells the pipelines they may paint before it waits for the reply.
set_ids_send_granting(t, from_grant, before) ==
    /\ compositor_chan' = Append(compositor_chan, to_sendable(t))
    /\ sent' = before \o <<EvSetIds(t)>> \o Evs("grant_paint_permission", FrameTree_iter(t))
    /\ frame_tree' = Some(t)
    /\ in_grant' = from_grant
    /\ pc' = "set_ids"

\* set_ids that always goes on as grant_paint_permission does.
set_ids_send_as_grant(t, from_grant, before) ==
    /\ compositor_chan' = Append(compositor_chan, to_sendable(t))
    /\ sent' = before \o <<EvSetIds(t)>>
    /\ frame_tree' = Some(t)
    /\ in_grant' = TRUE
    /\ pc' = "set_ids"

\* set_ids up to port.recv(): SetIds goes to the compositor and the task blocks.
\* before is what the handler emitted ahead of the call.
set_ids_send(t, from_grant, before) ==
    /\ compositor_chan' = Append(compositor_chan, to_sendable(t))
    /\ sent' = before \o <<EvSetIds(t)>>
    /\ frame_tree' = Some(t)
    /\ in_grant' = from_grant
    /\ pc' = "set_ids"

\* The handler returns true without reaching set_ids.
Return(emitted) ==
    /\ sent' = emitted
    /\ pc' = "recv"
    /\ UNCHANGED <<frame_tree, in_grant, compositor_chan, ack, failure>>

\* InitLoadUrlMsg that reads next_pipeline_id without advancing it.
InitLoadUrlMsg_keeping_id(js) ==
    /\ Ready
    /\ next_pipeline_id = 0
    /\ request' = Request("InitLoadUrlMsg", 0, js, "")
    /\ trail' = Trail("InitLoadUrlMsg", "")
    /\ LET id == next_pipeline_id IN
       /\ next_pipeline_id' = id
       /\ pipelines' = pipelines \cup {id}
       /\ UNCHANGED navigation_context
       /\ IF js
          THEN /\ heap' = Store(heap, id, [Pipeline_create EXCEPT !.script_only = TRUE])
               /\ UNCHANGED <<pending_frames, next_addr>>
               /\ Return(<<Ev("ExecuteMsg", id)>>)
          ELSE /\ heap' = Store(heap, id, Pipeline_load(Pipeline_create, "Load"))
               /\ pending_frames' = Append(pending_frames,
                      [before |-> None, after |-> NewFrameTree(next_addr, id, None)])
               /\ next_addr' = next_addr + 1
               /\ Return(<<Ev("load", id)>>)

\* InitLoadUrlMsg(url); js is url.path.ends_with(".js").  The browser sends it
\* once, before any pipeline exists.
InitLoadUrlMsg(js) ==
    /\ Ready
    /\ next_pipeline_id = 0
    /\ request' = Request("InitLoadUrlMsg", 0, js, "")
    /\ trail' = Trail("InitLoadUrlMsg", "")
    /\ LET id == next_pipeline_id IN
       /\ next_pipeline_id' = id + 1
       /\ pipelines' = pipelines \cup {id}
       /\ UNCHANGED navigation_context
       /\ IF js
          THEN /\ heap' = Store(heap, id, [Pipeline_create EXCEPT !.script_only = TRUE])
               /\ UNCHANGED <<pending_frames, next_addr>>
               /\ Return(<<Ev("ExecuteMsg", id)>>)
          ELSE /\ heap' = Store(heap, id, Pipeline_load(Pipeline_create, "Load"))
               /\ pending_frames' = Append(pending_frames,
                      [before |-> None, after |-> NewFrameTree(next_addr, id, None)])
               /\ next_addr' = next_addr + 1
               /\ Return(<<Ev("load", id)>>)

\* The top-level trees LoadIframeUrlMsg searches, in the order it chains them.
searched_frames == all_frames(navigation_context)
                   \o [i \in 1..Len(pending_frames) |-> pending_frames[i].after]

\* The loop over frame_trees: every searched tree that holds source gets a new
\* node for pipeline at its first source node; the new boxes are addr, addr + 1, ...
RECURSIVE push_all_first(_, _, _, _)
\* The loop left after the first matching tree.
push_all_first(ts, source, pipeline, addr) ==
    IF ts = <<>> THEN <<>>
    ELSE IF FrameTree_contains(Head(ts), source)
         THEN <<push_child(Head(ts), source, NewFrameTree(addr, pipeline, Some(source)))>>
              \o Tail(ts)
         ELSE <<Head(ts)>> \o push_all_first(Tail(ts), source, pipeline, addr)

RECURSIVE push_all(_, _, _, _)
push_all(ts, source, pipeline, addr) ==
    IF ts = <<>> THEN <<>>
    ELSE IF FrameTree_contains(Head(ts), source)
         THEN <<push_child(Head(ts), source, NewFrameTree(addr, pipeline, Some(source)))>>
              \o push_all(Tail(ts), source, pipeline, addr + 1)
         ELSE <<Head(ts)>> \o push_all(Tail(ts), source, pipeline, addr)

Matching(ts, source) == {i \in 1..Len(ts) : FrameTree_contains(ts[i], source)}

\* LoadIframeUrlMsg(url, source_pipeline_id, subpage_id, size_future).  It comes
\* from the script of a pipeline that is in some frame tree and has not been told
\* to exit.
LoadIframeUrlMsg(js, source_pipeline_id) ==
    /\ Ready
    /\ source_pipeline_id \in 0..(next_pipeline_id - 1)
    /\ ~heap[source_pipeline_id].exited
    /\ Matching(searched_frames, source_pipeline_id) # {}
    /\ request' = Request("LoadIframeUrlMsg", source_pipeline_id, js, "")
    /\ trail' = Trail("LoadIframeUrlMsg", "")
    /\ IF source_pipeline_id \notin pipelines
       THEN Fail("source Id of LoadIframeUrlMsg does have an associated pipeline")
       ELSE IF ~heap[source_pipeline_id].url
       THEN Fail("LoadUrlIframeMsg's source's Url is None")
       ELSE LET id == next_pipeline_id
                np == Len(navigation_context.previous)
                nc == Len(navigation_context.current)
                nn == Len(navigation_context.next)
                pushed == push_all(searched_frames, source_pipeline_id, id, next_addr)
            IN
            /\ next_pipeline_id' = id + 1
            /\ heap' = Store(heap, id,
                   LET pipeline == [Pipeline_create EXCEPT !.parsed_iframe = TRUE]
                   IN IF js THEN Pipeline_execute(pipeline)
                      ELSE Pipeline_load(pipeline, "None"))
            /\ navigation_context' =
                   [previous |-> SubSeq(pushed, 1, np),
                    current  |-> SubSeq(pushed, np + 1, np + nc),
                    next     |-> SubSeq(pushed, np + nc + 1, np + nc + nn)]
            /\ pending_frames' =
                   [i \in 1..Len(pending_frames) |->
                       [pending_frames[i] EXCEPT !.after = pushed[np + nc + nn + i]]]
            /\ next_addr' = next_addr
                            + Cardinality(Matching(searched_frames, source_pipeline_id))
            /\ pipelines' = pipelines \cup {id}
            /\ Return(<<Ev(IF js THEN "execute" ELSE "load", id)>>)

\* The walk over the pending changes without the test that makes LoadUrlMsg
\* return when a change covers source_id.
RECURSIVE pending_scan_uncovered(_, _, _)
pending_scan_uncovered(changes, current_frame, source_id) ==
    IF changes = <<>> THEN "clear"
    ELSE LET frame_change == Head(changes) IN
         IF is_none(frame_change.before) THEN "no active page"
         ELSE IF is_none(find_mut(current_frame, frame_change.before[1]))
              THEN "non-active source"
              ELSE pending_scan_uncovered(Tail(changes), current_frame, source_id)

\* The pending changes LoadUrlMsg walks before it finds one that covers
\* source_id: "covered" at the first such change, "failed" when a change ahead
\* of it has no `before` or a `before` outside the current frame, else "clear".
RECURSIVE pending_scan(_, _, _)
pending_scan(changes, current_frame, source_id) ==
    IF changes = <<>> THEN "clear"
    ELSE LET frame_change == Head(changes) IN
         IF is_none(frame_change.before) THEN "no active page"
         ELSE LET changing_frame == find_mut(current_frame, frame_change.before[1])
                  source_frame == find_mut(current_frame, source_id)[1]
              IN IF is_none(changing_frame) THEN "non-active source"
                 ELSE IF \/ FrameTree_contains(changing_frame[1], source_id)
                         \/ FrameTree_contains(source_frame, frame_change.before[1])
                      THEN "covered"
                      ELSE pending_scan(Tail(changes), current_frame, source_id)

\* LoadUrlMsg(source_id, url, size_future).  It comes from the script of a
\* pipeline of the current frame tree that has not been told to exit.
LoadUrlMsg(js, source_id) ==
    /\ Ready
    /\ is_some(navigation_context.current)
    /\ FrameTree_contains(navigation_context.current[1], source_id)
    /\ ~heap[source_id].exited
    /\ request' = Request("LoadUrlMsg", source_id, js, "")
    /\ trail' = Trail("LoadUrlMsg", "")
    /\ LET current_frame == navigation_context.current[1]
           source_frame == find_mut(current_frame, source_id)[1]
           scan == pending_scan(pending_frames, current_frame, source_id)
           id == next_pipeline_id
       IN
       IF scan = "no active page"
       THEN Fail("Received load msg from pipeline, but there is no currently active page")
       ELSE IF scan = "non-active source"
       THEN Fail("Pending change has non-active source pipeline")
       ELSE IF scan = "covered"
       THEN /\ UNCHANGED <<pipelines, heap, navigation_context, next_pipeline_id,
                           pending_frames, next_addr>>
            /\ Return(<<>>)
       ELSE /\ next_pipeline_id' = id + 1
            /\ pipelines' = pipelines \cup {id}
            /\ UNCHANGED navigation_context
            /\ IF js
               THEN /\ heap' = Store(heap, id, [Pipeline_create EXCEPT !.script_only = TRUE])
                    /\ UNCHANGED <<pending_frames, next_addr>>
                    /\ Return(<<Ev("ExecuteMsg", id)>>)
               ELSE /\ heap' = Store(heap, id, Pipeline_load(Pipeline_create, "Load"))
                    /\ pending_frames' = Append(pending_frames,
                           [before |-> Some(source_id),
                            after  |-> NewFrameTree(next_addr, id, source_frame.parent)])
                    /\ next_addr' = next_addr + 1
                    /\ Return(<<Ev("load", id)>>)

\* NavigateMsg that revokes the paint permission of the current frame before
\* it looks at the stack it navigates to.
NavigateMsg_revoking_first(direction) ==
    /\ Ready
    /\ request' = Request("NavigateMsg", 0, FALSE, direction)
    /\ trail' = Trail("NavigateMsg", direction)
    /\ LET destination == IF direction = "Forward" THEN navigation_context.next
                          ELSE navigation_context.previous
           old == IF is_some(navigation_context.current)
                  THEN FrameTree_iter(navigation_context.current[1]) ELSE <<>>
       IN
       IF destination = <<>>
       THEN /\ heap' = RevokeAll(heap, Range(old))
            /\ UNCHANGED <<pipelines, navigation_context, next_pipeline_id,
                           pending_frames, next_addr>>
            /\ Return(Evs("revoke_paint_permission", old))
       ELSE LET nc == IF direction = "Forward" THEN forward(navigation_context)
                      ELSE back(navigation_context)
                destination_frame == nc.current[1]
                new == FrameTree_iter(destination_frame)
            IN
            /\ navigation_context' = nc
            /\ heap' = ReloadAll(RevokeAll(heap, Range(old)), Range(new), "Navigate")
            /\ UNCHANGED <<pipelines, next_pipeline_id, pending_frames, next_addr,
                           ack, failure>>
            /\ set_ids_send(destination_frame, TRUE,
                            Evs("revoke_paint_permission", old) \o Evs("reload", new))

\* NavigateMsg(direction), up to the port.recv() of set_ids.
NavigateMsg(direction) ==
    /\ Ready
    /\ request' = Request("NavigateMsg", 0, FALSE, direction)
    /\ trail' = Trail("NavigateMsg", direction)
    /\ LET destination == IF direction = "Forward" THEN navigation_context.next
                          ELSE navigation_context.previous
       IN
       IF destination = <<>>
       THEN /\ UNCHANGED <<pipelines, heap, navigation_context, next_pipeline_id,
                           pending_frames, next_addr>>
            /\ Return(<<>>)
       ELSE LET old == FrameTree_iter(navigation_context.current[1])
                nc == IF direction = "Forward" THEN forward(navigation_context)
                      ELSE back(navigation_context)
                destination_frame == nc.current[1]
                new == FrameTree_iter(destination_frame)
            IN
            /\ navigation_context' = nc
            /\ heap' = ReloadAll(RevokeAll(heap, Range(old)), Range(new), "Navigate")
            /\ UNCHANGED <<pipelines, next_pipeline_id, pending_frames, next_addr,
                           ack, failure>>
            /\ set_ids_send(destination_frame, TRUE,
                            Evs("revoke_paint_permission", old) \o Evs("reload", new))

\* rposition that also matches a change whose `after` tree holds pipeline_id
\* below its root.
rposition_within(changes, pipeline_id) ==
    LET hits == {i \in 1..Len(changes) :
                    FrameTree_contains(changes[i].after, pipeline_id)}
    IN IF hits = {} THEN 0 ELSE CHOOSE i \in hits : \A j \in hits : j <= i

\* rposition that falls back on the last change when none matches.
rposition_or_last(changes, pipeline_id) ==
    LET hits == {i \in 1..Len(changes) : changes[i].after.pipeline = pipeline_id}
    IN IF hits = {} THEN Len(changes) ELSE CHOOSE i \in hits : \A j \in hits : j <= i

\* rposition: the last index whose `after` root is pipeline_id; 0 for None.
rposition(changes, pipeline_id) ==
    LET hits == {i \in 1..Len(changes) : changes[i].after.pipeline = pipeline_id}
    IN IF hits = {} THEN 0 ELSE CHOOSE i \in hits : \A j \in hits : j <= i

\* swap_remove that drops the element it moved as well.
swap_remove_and_pop(s, index) ==
    [j \in 1..(IF Len(s) >= 2 THEN Len(s) - 2 ELSE 0) |->
        IF j = index THEN s[Len(s)] ELSE s[j]]

\* swap_remove: the last element takes the place of the removed one.
swap_remove(s, index) ==
    [j \in 1..(Len(s) - 1) |-> IF j = index THEN s[Len(s)] ELSE s[j]]

\* RendererReadyMsg(pipeline_id), up to the port.recv() of set_ids.  It comes
\* from the renderer of a pipeline that has not been told to exit.
RendererReadyMsg(pipeline_id) ==
    /\ Ready
    /\ pipeline_id \in 0..(next_pipeline_id - 1)
    /\ ~heap[pipeline_id].exited
    /\ request' = Request("RendererReadyMsg", pipeline_id, FALSE, "")
    /\ trail' = Trail("RendererReadyMsg", "")
    /\ LET current == navigation_context.current
           pending_index == rposition(pending_frames, pipeline_id)
       IN
       IF is_some(current) /\ FrameTree_contains(current[1], pipeline_id)
       THEN /\ UNCHANGED <<pipelines, heap, navigation_context, next_pipeline_id,
                           pending_frames, next_addr, ack, failure>>
            /\ set_ids_send(current[1], FALSE, <<>>)
       ELSE IF pending_index = 0
       THEN /\ UNCHANGED <<pipelines, heap, navigation_context, next_pipeline_id,
                           pending_frames, next_addr>>
            /\ Return(<<>>)
       ELSE LET frame_change == pending_frames[pending_index]
                to_add == frame_change.after
            IN
            IF is_none(current) /\ (is_some(to_add.parent) \/ is_some(frame_change.before))
            THEN Fail("current_frame().unwrap() on None")
            ELSE IF is_some(frame_change.before)
            THEN LET revoke_id == frame_change.before[1]
                     to_revoke == find_mut(current[1], revoke_id)
                 IN
                 IF is_none(to_revoke)
                 THEN Fail("pending frame change refers to an old frame not contained in the current frame")
                 ELSE LET revoked == FrameTree_iter(to_revoke[1])
                          next_frame_tree ==
                              IF is_none(to_add.parent) THEN to_add
                              ELSE replace_child(FrameTree_clone(current[1], next_addr),
                                                 revoke_id, to_add).tree
                      IN
                      /\ pending_frames' = swap_remove(pending_frames, pending_index)
                      /\ next_addr' = IF is_none(to_add.parent) THEN next_addr
                                      ELSE next_addr + Size(current[1])
                      /\ heap' = RevokeAll(heap, Range(revoked))
                      /\ UNCHANGED <<pipelines, navigation_context, next_pipeline_id,
                                     ack, failure>>
                      /\ set_ids_send(next_frame_tree, TRUE,
                                      Evs("revoke_paint_permission", revoked))
            ELSE IF is_none(to_add.parent)
            THEN /\ pending_frames' = swap_remove(pending_frames, pending_index)
                 /\ UNCHANGED <<pipelines, heap, navigation_context, next_pipeline_id,
                                next_addr, ack, failure>>
                 /\ set_ids_send(to_add, TRUE, <<>>)
            ELSE LET clone == FrameTree_clone(current[1], next_addr)
                 IN
                 IF ~FrameTree_contains(clone, to_add.parent[1])
                 THEN Fail("pending frame has a parent frame that is not active")
                 ELSE /\ pending_frames' = swap_remove(pending_frames, pending_index)
                      /\ next_addr' = next_addr + Size(current[1])
                      /\ UNCHANGED <<pipelines, heap, navigation_context,
                                     next_pipeline_id, ack, failure>>
                      /\ set_ids_send(push_child(clone, to_add.parent[1], to_add),
                                      TRUE, <<>>)

\* The compositor takes a SetIds and replies on its channel (compositing is
\* outside the sources: the specification's "replies with unit").
CompositorSetIds ==
    /\ compositor_chan # <<>>
    /\ compositor_chan' = Tail(compositor_chan)
    /\ ack' = TRUE
    /\ UNCHANGED <<pipelines, heap, navigation_context, next_pipeline_id,
                   pending_frames, next_addr, pc, request, frame_tree, in_grant,
                   sent, failure, trail>>

\* The pipelines grant_paint_permission calls exit() on and removes from the
\* registry, in order: for every frame of every evicted tree that the context
\* nc no longer contains, the pipeline of the evicted tree (frame_tree.pipeline).
RECURSIVE evicted_exits(_, _)
evicted_exits(evicted, nc) ==
    IF evicted = <<>> THEN <<>>
    ELSE LET tree == Head(evicted)
             frames == FrameTree_iter(tree)
             gone == SelectSeq(frames, LAMBDA id : ~NavigationContext_contains(nc, id))
         IN [i \in 1..Len(gone) |-> tree.pipeline] \o evicted_exits(Tail(evicted), nc)

\* set_ids from port.recv() on, and the rest of grant_paint_permission when
\* set_ids was called from it.
SetIdsAcked ==
    /\ pc = "set_ids"
    /\ ack
    /\ ack' = FALSE
    /\ LET tree == frame_tree[1]
           granted == FrameTree_iter(tree)
           commit == in_grant /\ heap[tree.pipeline].navigation_type = "Load"
           nc == IF commit THEN load(navigation_context, tree) ELSE navigation_context
           exits == IF commit THEN evicted_exits(navigation_context.next, nc) ELSE <<>>
       IN
       /\ navigation_context' = nc
       /\ heap' = ExitAll(GrantAll(heap, Range(granted)), Range(exits))
       /\ pipelines' = pipelines \ Range(exits)
       /\ sent' = sent \o <<Ev("ack", tree.pipeline)>>
                       \o Evs("grant_paint_permission", granted)
                       \o Evs("exit", exits)
    /\ frame_tree' = None
    /\ in_grant' = FALSE
    /\ pc' = "recv"
    /\ UNCHANGED <<next_pipeline_id, pending_frames, next_addr, request,
                   compositor_chan, failure, trail>>

\* The resize loop without the comparison with the current frame's id.
resize_targets_unfiltered(nc) ==
    [i \in 1..Len(nc.previous \o nc.next) |-> (nc.previous \o nc.next)[i].pipeline]

\* The root pipelines ResizedWindowBroadcast sends ResizeInactiveMsg to.
resize_targets(nc) ==
    LET inactive == nc.previous \o nc.next
        roots == [i \in 1..Len(inactive) |-> inactive[i].pipeline]
    IN IF is_some(nc.current)
       THEN SelectSeq(roots, LAMBDA id : id # nc.current[1].pipeline)
       ELSE roots

ResizedWindowBroadcast ==
    /\ Ready
    /\ request' = Request("ResizedWindowBroadcast", 0, FALSE, "")
    /\ trail' = Trail("ResizedWindowBroadcast", "")
    /\ UNCHANGED <<pipelines, heap, navigation_context, next_pipeline_id,
                   pending_frames, next_addr>>
    /\ Return(Evs("ResizeInactiveMsg", resize_targets(navigation_context)))

\* The iteration over the registry that ends after its first element.
Sorted_first(S) ==
    IF S = {} THEN <<>> ELSE <<CHOOSE x \in S : \A y \in S : x <= y>>

\* A set of ids as a sequence, in increasing order (the HashMap's order of
\* iteration is not specified).
RECURSIVE Sorted(_)
Sorted(S) ==
    IF S = {} THEN <<>>
    ELSE LET m == CHOOSE x \in S : \A y \in S : x <= y
         IN <<m>> \o Sorted(S \ {m})

ExitMsg ==
    /\ Ready
    /\ request' = Request("ExitMsg", 0, FALSE, "")
    /\ trail' = Trail("ExitMsg", "")
    /\ heap' = ExitAll(heap, pipelines)
    /\ sent' = Evs("exit", Sorted(pipelines))
               \o <<Ev("image_cache_task.exit", 0), Ev("resource_task.Exit", 0),
                    Ev("sender.send", 0)>>
    /\ pc' = "stopped"
    /\ UNCHANGED <<pipelines, navigation_context, next_pipeline_id, pending_frames,
                   next_addr, frame_tree, in_grant, compositor_chan, ack, failure>>

\* A run creates no more than MaxPipelines pipelines.
Bounded == next_pipeline_id' <= MaxPipelines

Next ==
    \/ \E js \in BOOLEAN : InitLoadUrlMsg(js) /\ Bounded
    \/ \E js \in BOOLEAN, source \in 0..(MaxPipelines - 1) :
           LoadIframeUrlMsg(js, source) /\ Bounded
    \/ \E js \in BOOLEAN, source \in 0..(MaxPipelines - 1) :
           LoadUrlMsg(js, source) /\ Bounded
    \/ \E direction \in {"Forward", "Back"} : NavigateMsg(direction)
    \/ \E id \in 0..(MaxPipelines - 1) : RendererReadyMsg(id)
    \/ ResizedWindowBroadcast
    \/ ExitMsg
    \/ CompositorSetIds
    \/ SetIdsAcked

Spec == Init /\ [][Next]_vars

\* Page loads, Back and the renderer-ready of pending pipelines alone, for runs
\* that create more pipelines.
MaxPipelinesDeep == 6

BoundedDeep == next_pipeline_id' <= MaxPipelinesDeep

NextDeep ==
    \/ InitLoadUrlMsg(FALSE) /\ BoundedDeep
    \/ \E source \in 0..(MaxPipelinesDeep - 1) :
           LoadIframeUrlMsg(FALSE, source) /\ BoundedDeep
    \/ \E source \in 0..(MaxPipelinesDeep - 1) :
           LoadUrlMsg(FALSE, source) /\ BoundedDeep
    \/ NavigateMsg("Back")
    \/ \E id \in 0..(MaxPipelinesDeep - 1) :
           rposition(pending_frames, id) # 0 /\ RendererReadyMsg(id)
    \/ CompositorSetIds
    \/ SetIdsAcked

SpecDeep == Init /\ [][NextDeep]_vars

\* Every message but the loads of scripts, for runs with five pipelines, where
\* two changes can be pending at once.
MaxPipelinesQueue == 5

BoundedQueue == next_pipeline_id' <= MaxPipelinesQueue

NextQueue ==
    \/ InitLoadUrlMsg(FALSE) /\ BoundedQueue
    \/ \E source \in 0..(MaxPipelinesQueue - 1) :
           LoadIframeUrlMsg(FALSE, source) /\ BoundedQueue
    \/ \E source \in 0..(MaxPipelinesQueue - 1) :
           LoadUrlMsg(FALSE, source) /\ BoundedQueue
    \/ \E direction \in {"Forward", "Back"} : NavigateMsg(direction)
    \/ \E id \in 0..(MaxPipelinesQueue - 1) : RendererReadyMsg(id)
    \/ ResizedWindowBroadcast
    \/ ExitMsg
    \/ CompositorSetIds
    \/ SetIdsAcked

SpecQueue == Init /\ [][NextQueue]_vars

----------------------------------------------------------------------------
(* The properties *)

\* The pipelines that occur in some tree of the sequence trees.
Occurring(trees) == UNION {Pipelines(trees[i]) : i \in 1..Len(trees)}

\* The `after` trees of the pending changes.
PendingAfter == [i \in 1..Len(pending_frames) |-> pending_frames[i].after]

\* The entries the step appends to `sent`, for a step that continues a handler.
Appended == SubSeq(sent', Len(sent) + 1, Len(sent'))

\* The step is the part of grant_paint_permission that commits a Load.
LoadCommit ==
    /\ pc = "set_ids" /\ ack /\ in_grant
    /\ heap[frame_tree[1].pipeline].navigation_type = "Load"

\* C1: a Load commit leaves `next` empty, and a pipeline of a tree that was in
\* `next` is exit()ed and removed from the registry if and only if it occurs in
\* no tree of the navigation context after the commit.
C1_LoadEvictsUnreachable ==
    [][LoadCommit =>
        /\ navigation_context'.next = <<>>
        /\ \A p \in Occurring(navigation_context.next) :
              (/\ \E i \in 1..Len(Appended) :
                     Appended[i].op = "exit" /\ Appended[i].id = p
               /\ p \notin pipelines')
              <=> p \notin Occurring(all_frames(navigation_context'))]_vars

\* C2: after every handler, every pipeline of a tree of the navigation context
\* or of the `after` tree of a pending change is in the registry.
C2_ReachableRegistered ==
    pc = "recv" =>
        Occurring(all_frames(navigation_context) \o PendingAfter) \subseteq pipelines

\* C3: a pipeline is granted paint permission only by the step that receives the
\* compositor's acknowledgment, when the last thing the constellation did was to
\* send the SetIds whose snapshot contains the pipeline and the compositor has
\* taken that message.
C3_GrantAfterAck ==
    [][\A i \in 1..Len(sent') :
          (/\ sent'[i].op = "grant_paint_permission"
           /\ ~(i <= Len(sent) /\ pc = "set_ids"))
          => /\ pc = "set_ids"
             /\ ack
             /\ compositor_chan = <<>>
             /\ sent[Len(sent)].op = "SetIds"
             /\ SendableFrameTree_contains(sent[Len(sent)].tree, sent'[i].id)
             /\ \E k \in (Len(sent) + 1)..(i - 1) : sent'[k].op = "ack"]_vars

\* A handler that granted paint permission to the two pipelines of a tree.
C3_Witness ==
    /\ pc = "recv"
    /\ Cardinality({i \in 1..Len(sent) : sent[i].op = "grant_paint_permission"}) = 2


\* Some pending change covers source_id: the subtree of the current frame tree
\* at its `before` contains source_id, or the subtree at source_id contains its
\* `before`.
Covered(source_id) ==
    /\ is_some(navigation_context.current)
    /\ \E i \in 1..Len(pending_frames) :
          /\ is_some(pending_frames[i].before)
          /\ LET old_id == pending_frames[i].before[1]
                 changing == find_mut(navigation_context.current[1], old_id)
                 source == find_mut(navigation_context.current[1], source_id)
             IN /\ is_some(changing)
                /\ is_some(source)
                /\ \/ source_id \in Pipelines(changing[1])
                   \/ old_id \in Pipelines(source[1])

\* C4: a LoadUrl whose source a pending change covers is a no-op: the handler
\* returns, having created no pipeline and allocated no id, with the registry,
\* the pending queue and the navigation context as they were.
C4_CoveredLoadUrlIsNoOp ==
    [][(pc = "recv" /\ request'.msg = "LoadUrlMsg" /\ Covered(request'.id)) =>
          /\ pc' = "recv"
          /\ next_pipeline_id' = next_pipeline_id
          /\ heap' = heap
          /\ pipelines' = pipelines
          /\ pending_frames' = pending_frames
          /\ navigation_context' = navigation_context]_vars


\* The step ends the handler of a RendererReady that took a pending change out
\* of the queue: grant_paint_permission was called with the next frame tree.
ChangeGranted ==
    pc = "set_ids" /\ ack /\ in_grant /\ request.msg = "RendererReadyMsg"

\* ... a change below the root, which revoked the subtree at sent[1].id.
SubframeGranted ==
    /\ ChangeGranted
    /\ frame_tree[1].pipeline # request.id
    /\ sent[1].op = "revoke_paint_permission"

\* The snapshot t with the subtree at pipeline id replaced by the snapshot new.
RECURSIVE Replaced(_, _, _)
Replaced(t, id, new) ==
    IF t.pipeline = id THEN new
    ELSE [pipeline |-> t.pipeline,
          children |-> [i \in 1..Len(t.children) |-> Replaced(t.children[i], id, new)]]

\* C5: when RendererReady(p) consumes a pending change below the root, the clone
\* of the current tree with the subtree at revoke_id replaced by `after` becomes
\* the current tree: it holds p where revoke_id was and holds revoke_id no more.
C5_SubframeBecomesCurrent ==
    [][SubframeGranted =>
        LET revoke_id == sent[1].id
            after == find_mut(frame_tree[1], request.id)
            old == navigation_context.current[1]
            new == navigation_context'.current[1]
        IN /\ new = frame_tree[1]
           /\ is_some(after)
           /\ to_sendable(new) = Replaced(to_sendable(old), revoke_id, to_sendable(after[1]))
           /\ request.id \in Pipelines(new)
           /\ revoke_id \notin Pipelines(new)]_vars

\* ... a change at the root, whose pipeline was issued with Load.
RootGranted ==
    /\ ChangeGranted
    /\ frame_tree[1].pipeline = request.id
    /\ heap[request.id].navigation_type = "Load"

\* C6: when RendererReady(p) consumes a pending root-level change, the entry is
\* gone, the former current tree is on top of `previous` over what was there,
\* the `after` tree is current, `next` is empty, and the pipelines of the former
\* current tree that occur in `previous` are still in the registry.
C6_RootChangeCommits ==
    [][RootGranted =>
        LET nc == navigation_context
            former == IF is_some(nc.current) THEN Pipelines(nc.current[1]) ELSE {}
        IN /\ rposition(pending_frames', request.id) = 0
           /\ navigation_context'.previous = nc.previous \o nc.current
           /\ navigation_context'.current = frame_tree
           /\ navigation_context'.next = <<>>
           /\ \A q \in former \cap Occurring(navigation_context'.previous) :
                 q \in pipelines => q \in pipelines']_vars

\* C7: Back, then Forward with no message in between, leaves previous, current
\* and next holding the trees they held before the Back, in the same order.
C7_BackForwardRestores ==
    (pc = "recv" /\ trail.stage = "forward") => navigation_context = trail.nc

\* Back and Forward over a history of three pages, the middle one with a frame.
C7_Witness ==
    /\ pc = "recv"
    /\ trail.stage = "forward"
    /\ trail.nc.previous # <<>>
    /\ trail.nc.next # <<>>
    /\ navigation_context.current[1].children # <<>>

\* The stack a Navigate(direction) takes the new current tree from.
Destination(direction) ==
    IF direction = "Forward" THEN navigation_context.next
    ELSE navigation_context.previous

\* C8: a Navigate with a non-empty destination stack moves the former current
\* tree on top of the opposite stack and the top of the destination stack to
\* current, adds and drops no tree, commits no Load in the grant that follows,
\* and revokes every pipeline of the former current tree before it reloads or
\* grants any pipeline.
C8_NavigateMovesTrees ==
    [][/\ (pc = "recv" /\ request'.msg = "NavigateMsg"
           /\ Destination(request'.direction) # <<>>) =>
            LET nc == navigation_context
                back_ == request'.direction = "Back"
                from == IF back_ THEN nc.previous ELSE nc.next
                to == IF back_ THEN nc.next ELSE nc.previous
                from_ == IF back_ THEN navigation_context'.previous
                         ELSE navigation_context'.next
                to_ == IF back_ THEN navigation_context'.next
                       ELSE navigation_context'.previous
            IN /\ pc' = "set_ids"
               /\ to_ = to \o nc.current
               /\ navigation_context'.current = <<from[Len(from)]>>
               /\ from_ \o navigation_context'.current = from
               /\ \A q \in Pipelines(nc.current[1]) :
                     \E i \in 1..Len(sent') :
                        sent'[i].op = "revoke_paint_permission" /\ sent'[i].id = q
       /\ (request'.msg = "NavigateMsg" /\ pc' # "recv") =>
            \A i, j \in 1..Len(sent') :
               (/\ sent'[i].op = "revoke_paint_permission"
                /\ sent'[j].op \in {"reload", "SetIds", "grant_paint_permission"})
               => i < j
       /\ (pc = "set_ids" /\ request.msg = "NavigateMsg") =>
            /\ navigation_context' = navigation_context
            /\ pipelines' = pipelines
            /\ \A i, j \in 1..Len(sent') :
                  (/\ sent'[i].op = "revoke_paint_permission"
                   /\ sent'[j].op \in {"reload", "SetIds", "grant_paint_permission"})
                  => i < j]_vars

\* A Navigate that ended with the grants of a tree of two pipelines, with a tree
\* of two pipelines left on the forward stack.
C8_Witness ==
    /\ pc = "recv"
    /\ request.msg = "NavigateMsg"
    /\ Cardinality({i \in 1..Len(sent) : sent[i].op = "grant_paint_permission"}) = 2
    /\ Cardinality({i \in 1..Len(sent) : sent[i].op = "revoke_paint_permission"}) = 2
    /\ navigation_context.next # <<>>

\* The tree t with child appended to the children of every node of pipeline id.
RECURSIVE WithChild(_, _, _)
WithChild(t, id, child) ==
    LET below == [i \in 1..Len(t.children) |-> WithChild(t.children[i], id, child)]
    IN [t EXCEPT !.children = IF t.pipeline = id THEN Append(below, child) ELSE below]

\* C9: after a LoadIframeUrl of a URL that is no script, every tree of previous,
\* current, next and of the pending changes that contains the source has one new
\* last child at the node of the source, a node without children for the new
\* pipeline with the source as parent; the other trees and the pending queue are
\* as they were, and the registry has gained the new id and nothing else.
C9_IframeAttachedEverywhere ==
    [][(pc = "recv" /\ request'.msg = "LoadIframeUrlMsg" /\ ~request'.js) =>
        LET source == request'.id
            new == next_pipeline_id
            before == searched_frames
            after == all_frames(navigation_context')
                     \o [i \in 1..Len(pending_frames') |-> pending_frames'[i].after]
        IN /\ pc' = "recv"
           /\ next_pipeline_id' = new + 1
           /\ new \notin pipelines
           /\ pipelines' = pipelines \cup {new}
           /\ Len(navigation_context'.previous) = Len(navigation_context.previous)
           /\ Len(navigation_context'.current) = Len(navigation_context.current)
           /\ Len(navigation_context'.next) = Len(navigation_context.next)
           /\ Len(pending_frames') = Len(pending_frames)
           /\ \A i \in 1..Len(pending_frames) :
                 pending_frames'[i].before = pending_frames[i].before
           /\ \A i \in 1..Len(before) :
                 IF source \in Pipelines(before[i])
                 THEN \E a \in next_addr..(next_addr' - 1) :
                         after[i] = WithChild(before[i], source,
                                              NewFrameTree(a, new, Some(source)))
                 ELSE after[i] = before[i]]_vars

\* A LoadIframeUrl that attached the new pipeline in two trees at once.
C9_Witness ==
    /\ pc = "recv"
    /\ request.msg = "LoadIframeUrlMsg"
    /\ ~request.js
    /\ Cardinality(Matching(searched_frames, next_pipeline_id - 1)) >= 2

\* C10: the pipeline of a load of a .js URL occurs in no frame tree and holds no
\* paint permission, and the load enqueues no pending change.
C10_ScriptLoadsNeverVisible ==
    \A p \in DOMAIN heap :
        heap[p].script_only =>
            /\ p \notin Occurring(all_frames(navigation_context) \o PendingAfter)
            /\ ~heap[p].paint

\* The step belongs to the handling of RendererReadyMsg for a pipeline that
\* LoadIframeUrlMsg created.
ReadyOfSubpage ==
    /\ request'.msg = "RendererReadyMsg"
    /\ request'.id \in DOMAIN heap
    /\ heap[request'.id].parsed_iframe

\* C11: no step of the handling of RendererReady(c), for a pipeline c that
\* LoadIframeUrl created, changes previous, current or next.
C11_SubpageReadyKeepsHistory ==
    [][ReadyOfSubpage => navigation_context' = navigation_context]_vars

\* RendererReady of a LoadIframeUrl pipeline, handled to its end after a page
\* was left behind, with that pipeline not in the current tree.
C11_Witness ==
    /\ pc = "recv"
    /\ request.msg = "RendererReadyMsg"
    /\ heap[request.id].parsed_iframe
    /\ navigation_context.previous # <<>>
    /\ ~FrameTree_contains(navigation_context.current[1], request.id)
    /\ request.id \in Occurring(PendingAfter)

\* The step starts the handling of RendererReadyMsg for an id that the current
\* frame tree does not hold and that is the `after` root of no pending change.
ReadyOfStranger ==
    /\ pc = "recv"
    /\ request'.msg = "RendererReadyMsg"
    /\ \A i \in 1..Len(navigation_context.current) :
           request'.id \notin Pipelines(navigation_context.current[i])
    /\ \A i \in 1..Len(pending_frames) :
           pending_frames[i].after.pipeline # request'.id

\* C12: RendererReady(id) for an id outside the current frame tree that is the
\* `after` root of no pending change returns at once: it sends nothing (no
\* SetIds, no grant, no revoke) and leaves the registry, the pipelines, the
\* pending queue and the navigation context as they were.
C12_StrangerReadyIsNoOp ==
    [][ReadyOfStranger =>
        /\ pc' = "recv"
        /\ sent' = <<>>
        /\ UNCHANGED <<pipelines, heap, pending_frames, navigation_context,
                       compositor_chan, ack, frame_tree>>]_vars

\* RendererReady of a registered pipeline that sits in `previous` only was
\* ignored while a change was pending.
C12_Witness ==
    /\ pc = "recv"
    /\ request.msg = "RendererReadyMsg"
    /\ sent = <<>>
    /\ request.id \in pipelines
    /\ request.id \in Occurring(navigation_context.previous)
    /\ request.id \notin Occurring(navigation_context.current)
    /\ pending_frames # <<>>
    /\ \A i \in 1..Len(pending_frames) : pending_frames[i].after.pipeline # request.id

\* C13: when a Load commit ends its handler, every pipeline of the registry
\* occurs in some tree of previous, current or next or in the `after` tree of
\* some pending change.
C13_RegisteredReachable ==
    [][LoadCommit =>
        pipelines' \subseteq
            Occurring(all_frames(navigation_context')
                      \o [i \in 1..Len(pending_frames') |-> pending_frames'[i].after])]_vars

\* The trees the constellation holds between two messages: those of previous,
\* current and next, then the `after` trees of the pending changes.
HeldTrees == all_frames(navigation_context) \o PendingAfter

\* The handler of the last message has run to its end.
AfterHandler == pc # "set_ids"

\* C14: after every handler no tree of previous, current, next or of a pending
\* change has two nodes with the same PipelineId.
C14_NoPipelineTwiceInTree ==
    AfterHandler =>
        \A i \in 1..Len(HeldTrees) :
            Cardinality(Pipelines(HeldTrees[i])) = Size(HeldTrees[i])

\* A sub-frame was replaced in a current tree of three nodes that took a parsed
\* iframe before, with the page before it kept in previous.
C14_Witness ==
    /\ pc = "recv"
    /\ request.msg = "RendererReadyMsg"
    /\ is_some(navigation_context.current)
    /\ Size(navigation_context.current[1]) >= 3
    /\ navigation_context.previous # <<>>
    /\ \E p \in Pipelines(navigation_context.current[1]) :
           ~heap[p].parsed_iframe /\ p # navigation_context.current[1].pipeline

\* Every node below the root of t names as its parent the pipeline of the node
\* that holds it among its children.
RECURSIVE ParentsMatch(_)
ParentsMatch(t) ==
    \A i \in 1..Len(t.children) :
        /\ t.children[i].parent = Some(t.pipeline)
        /\ ParentsMatch(t.children[i])

\* C15: after every handler, in every tree of previous, current, next and of
\* the pending changes, the parent of a node that is not the root is the
\* pipeline of the node whose children hold it.
C15_ParentIsTreeParent ==
    AfterHandler => \A i \in 1..Len(HeldTrees) : ParentsMatch(HeldTrees[i])

\* The current tree is a clone in which a load replaced a sub-frame, and some
\* tree has a node two levels below its root.
C15_Witness ==
    /\ pc = "recv"
    /\ is_some(navigation_context.current)
    /\ \E i \in 1..Len(navigation_context.current[1].children) :
           ~heap[navigation_context.current[1].children[i].pipeline].parsed_iframe
    /\ \E i \in 1..Len(HeldTrees) : \E j \in 1..Len(HeldTrees[i].children) :
           HeldTrees[i].children[j].children # <<>>

\* The boxes of the nodes of t.
RECURSIVE Addrs(_)
Addrs(t) == {t.addr} \cup UNION {Addrs(t.children[i]) : i \in 1..Len(t.children)}

\* C16: after every handler the trees of previous, current and next are made
\* of node boxes that are all different: no box is a node of two entries, nor
\* twice a node of one entry.
C16_HistoryEntriesDisjoint ==
    AfterHandler =>
        LET entries == all_frames(navigation_context)
        IN /\ \A i \in 1..Len(entries) :
                  Cardinality(Addrs(entries[i])) = Size(entries[i])
           /\ \A i, j \in 1..Len(entries) :
                  i # j => Addrs(entries[i]) \cap Addrs(entries[j]) = {}

\* The current tree is a clone of an entry of previous with one sub-frame
\* replaced: the two share the root pipeline and another one.
C16_Witness ==
    /\ pc = "recv"
    /\ is_some(navigation_context.current)
    /\ \E i \in 1..Len(navigation_context.previous) :
           LET old == navigation_context.previous[i]
               new == navigation_context.current[1]
           IN /\ old.pipeline = new.pipeline
              /\ Cardinality(Pipelines(old) \cap Pipelines(new)) >= 2
              /\ Pipelines(old) # Pipelines(new)

\* The step handles ResizedWindowBroadcast.
Resizing == pc = "recv" /\ request'.msg = "ResizedWindowBroadcast"

\* The pipelines a ResizeInactiveMsg is among the messages of the sequence s for.
Resized(s) == {s[k].id : k \in {k \in 1..Len(s) : s[k].op = "ResizeInactiveMsg"}}

\* C17, as stated: ResizedWindowBroadcast sends ResizeInactive to every pipeline
\* that occurs in a tree of previous or next and not in the current tree, and
\* to no pipeline of the current tree.
C17_ResizeEveryInactivePipeline ==
    [][Resizing =>
        Resized(sent') = Occurring(navigation_context.previous \o navigation_context.next)
                         \ Occurring(navigation_context.current)]_vars

\* C17, amended: ResizedWindowBroadcast sends one ResizeInactive for every entry
\* of previous and next whose root pipeline is not the root of the current tree
\* (for every entry when there is no current tree), to that root pipeline; it
\* sends nothing else, so nothing to a pipeline of the current tree and nothing
\* to a sub-frame of an inactive tree, and it changes no state.
C17_ResizeInactiveRoots ==
    [][Resizing =>
        LET inactive == navigation_context.previous \o navigation_context.next
            current == navigation_context.current
            kept == {i \in 1..Len(inactive) :
                        \A c \in 1..Len(current) :
                            inactive[i].pipeline # current[c].pipeline}
        IN /\ \A k \in 1..Len(sent') : sent'[k].op = "ResizeInactiveMsg"
           /\ \A p \in 0..next_pipeline_id :
                  Cardinality({k \in 1..Len(sent') : sent'[k].id = p})
                  = Cardinality({i \in kept : inactive[i].pipeline = p})
           /\ Resized(sent') \cap Occurring(current) = {}
           /\ pc' = "recv"
           /\ UNCHANGED <<pipelines, heap, navigation_context, pending_frames>>]_vars

\* A resize that skipped an inactive entry with the root of the current tree,
\* reached the root of another entry and left out a sub-frame pipeline that is
\* in an inactive tree only.
C17_Witness ==
    /\ pc = "recv"
    /\ request.msg = "ResizedWindowBroadcast"
    /\ sent # <<>>
    /\ \E i \in 1..Len(navigation_context.previous) :
           navigation_context.previous[i].pipeline = navigation_context.current[1].pipeline
    /\ (Occurring(navigation_context.previous \o navigation_context.next)
        \ Occurring(navigation_context.current)) \ Resized(sent) # {}

\* The positions of the messages with operation op in the sequence s.
Positions(s, op) == {k \in 1..Len(s) : s[k].op = op}

\* The messages of the handler of ExitMsg, in their order, and its end.
ExitInOrder ==
    LET exits == Positions(sent', "exit")
        caches == Positions(sent', "image_cache_task.exit")
        resources == Positions(sent', "resource_task.Exit")
        acks == Positions(sent', "sender.send")
    IN /\ {sent'[k].id : k \in exits} = pipelines
       /\ Cardinality(exits) = Cardinality(pipelines)
       /\ Cardinality(caches) = 1
       /\ Cardinality(resources) = 1
       /\ acks = {Len(sent')}
       /\ Len(sent') = Cardinality(pipelines) + 3
       /\ \A e \in exits, s \in caches \cup resources : e < s
       /\ \A s \in caches \cup resources, a \in acks : s < a
       /\ \A p \in pipelines : heap'[p].exited
       /\ pc' = "stopped"

\* Nothing is handled once the loop has stopped.
StoppedForGood ==
    /\ pc' = "stopped"
    /\ UNCHANGED <<request, sent, pipelines, heap, navigation_context,
                   pending_frames, next_pipeline_id>>

\* C18: ExitMsg sends exit() to every pipeline of the registry, once each, then
\* tells the image cache and the resource task to exit, then acknowledges the
\* sender, and the loop stops: afterwards no message is handled.  A handler
\* that returns stops the loop only if it is the one of ExitMsg.
C18_ExitStopsInOrder ==
    [][/\ (pc = "recv" /\ request'.msg = "ExitMsg") => ExitInOrder
       /\ (pc' = "stopped") => (request'.msg = "ExitMsg")
       /\ (pc = "stopped") => StoppedForGood]_vars

\* The loop has stopped on an ExitMsg that found several pipelines registered,
\* one of them in an inactive tree, and a change still pending.
C18_Witness ==
    /\ pc = "stopped"
    /\ Cardinality(pipelines) >= 2
    /\ Len(sent) = Cardinality(pipelines) + 3
    /\ navigation_context.previous # <<>>
    /\ pending_frames # <<>>

\* The step handles a NavigateMsg towards an empty stack: Back with nothing in
\* previous, or Forward with nothing in next.
NavigateToNothing ==
    /\ pc = "recv"
    /\ request'.msg = "NavigateMsg"
    /\ \/ request'.direction = "Back" /\ navigation_context.previous = <<>>
       \/ request'.direction = "Forward" /\ navigation_context.next = <<>>

\* C19: Navigate(Back) with an empty previous and Navigate(Forward) with an
\* empty next return at once: nothing is sent (no revoke, grant, reload or
\* SetIds) and the pipelines, the navigation context, the pending queue and the
\* registry stay as they were.
C19_NavigateEmptyIsNoOp ==
    [][NavigateToNothing =>
        /\ pc' = "recv"
        /\ sent' = <<>>
        /\ UNCHANGED <<heap, navigation_context, pending_frames, pipelines,
                       compositor_chan, ack, frame_tree>>]_vars

\* A Forward that found next empty was ignored while the current tree held
\* paint permission, a page was in previous and a change was pending.
C19_Witness ==
    /\ pc = "recv"
    /\ request.msg = "NavigateMsg"
    /\ request.direction = "Forward"
    /\ navigation_context.next = <<>>
    /\ navigation_context.previous # <<>>
    /\ sent = <<>>
    /\ heap[navigation_context.current[1].pipeline].paint
    /\ pending_frames # <<>>

\* The pipelines the step creates: a handler that creates a pipeline starts it
\* with a load or an execute, the first message it sends.
Created ==
    IF pc = "recv"
    THEN {sent'[k].id : k \in {k \in 1..Len(sent') :
                                  sent'[k].op \in {"load", "execute", "ExecuteMsg"}}}
    ELSE {}

\* C20: the id of a new pipeline is the value of next_pipeline_id, which is
\* above the id of every pipeline created before, and the step that creates it
\* advances next_pipeline_id by one; a step that creates no pipeline leaves
\* next_pipeline_id and the set of pipelines ever created as they are.
C20_IdsStrictlyIncrease ==
    [][/\ DOMAIN heap = 0..(next_pipeline_id - 1)
       /\ Created \subseteq {next_pipeline_id}
       /\ next_pipeline_id' = next_pipeline_id + Cardinality(Created)
       /\ DOMAIN heap' = DOMAIN heap \cup Created
       /\ pipelines' \ pipelines = Created]_vars

\* A load from the current page created the pipeline with the highest id so
\* far after an eviction had taken an earlier pipeline out of the registry.
C20_Witness ==
    /\ pc = "recv"
    /\ request.msg = "LoadUrlMsg"
    /\ sent = <<Ev("load", next_pipeline_id - 1)>>
    /\ next_pipeline_id >= 3
    /\ \E p \in 0..(next_pipeline_id - 1) : p \notin pipelines

\* C21: after every handler the `before` of every pending change is a pipeline
\* of the current frame tree, and the task never dies of "pending frame change
\* refers to an old frame not contained in the current frame" (RendererReadyMsg)
\* or of "Pending change has non-active source pipeline" (LoadUrlMsg).
C21_PendingBeforeIsCurrent ==
    /\ AfterHandler =>
           \A i \in 1..Len(pending_frames) :
               is_some(pending_frames[i].before) =>
                   pending_frames[i].before[1] \in Occurring(navigation_context.current)
    /\ failure \notin
           {"pending frame change refers to an old frame not contained in the current frame",
            "Pending change has non-active source pipeline"}

\* The pipelines that hold paint permission.
Painters == {p \in DOMAIN heap : heap[p].paint}

\* C22: after every handler every pipeline that holds paint permission is a
\* pipeline of the current frame tree.
C22_OnlyCurrentPaints ==
    AfterHandler => Painters \subseteq Occurring(navigation_context.current)

\* The step starts the handling of RendererReadyMsg for a pipeline of the
\* current frame tree.
ReadyOfCurrent ==
    /\ pc = "recv"
    /\ request'.msg = "RendererReadyMsg"
    /\ request'.id \in Occurring(navigation_context.current)

\* The step ends that handling: the reply to its SetIds has come.
ReadyOfCurrentAcked ==
    /\ pc = "set_ids" /\ pc' = "recv"
    /\ request.msg = "RendererReadyMsg"
    /\ request.id \in Occurring(navigation_context.current)

\* C23: RendererReady(pipeline_id) for a pipeline of the current frame tree
\* sends one SetIds with the snapshot of the current frame tree and, once the
\* compositor has replied, returns; previous, current, next, the pending queue
\* and the registry are the same afterwards, whatever the navigation_type of
\* the root pipeline.
C23_ReadyOfCurrentRepublishes ==
    [][/\ ReadyOfCurrent =>
              /\ pc' = "set_ids"
              /\ sent' = <<EvSetIds(navigation_context.current[1])>>
              /\ compositor_chan' =
                     Append(compositor_chan, to_sendable(navigation_context.current[1]))
              /\ UNCHANGED <<navigation_context, pending_frames, pipelines>>
       /\ ReadyOfCurrentAcked =>
              /\ Positions(sent', "SetIds") = {1}
              /\ Positions(sent', "exit") = {}
              /\ Positions(sent', "revoke_paint_permission") = {}
              /\ UNCHANGED <<navigation_context, pending_frames, pipelines>>]_vars

\* RendererReady of a sub-frame of the current tree was handled to its end
\* while the root pipeline had navigation_type Load, a page was in previous
\* and a change was pending.
C23_Witness ==
    /\ pc = "recv"
    /\ request.msg = "RendererReadyMsg"
    /\ is_some(navigation_context.current)
    /\ request.id \in Pipelines(navigation_context.current[1])
    /\ request.id # navigation_context.current[1].pipeline
    /\ heap[navigation_context.current[1].pipeline].navigation_type = "Load"
    /\ Positions(sent, "ack") # {}
    /\ navigation_context.previous # <<>>
    /\ pending_frames # <<>>

\* The number of pending changes whose `after` root is pipeline p, in changes.
Waiting(changes, p) ==
    Cardinality({i \in 1..Len(changes) : changes[i].after.pipeline = p})

\* The step starts the handling of a RendererReadyMsg.
ReadyStarts == pc = "recv" /\ request'.msg = "RendererReadyMsg"

\* C24: a step that does not start the handling of a RendererReady keeps every
\* pending change in its place in the queue, with its `before` and the root of
\* its `after`; a RendererReady(id) takes at most one change out of the queue,
\* one whose `after` root is id, and the changes it leaves are changes that
\* were there.
C24_OnlyReadyRemovesPending ==
    [][/\ ~ReadyStarts =>
              /\ Len(pending_frames') >= Len(pending_frames)
              /\ \A i \in 1..Len(pending_frames) :
                     /\ pending_frames'[i].before = pending_frames[i].before
                     /\ pending_frames'[i].after.pipeline = pending_frames[i].after.pipeline
       /\ ReadyStarts =>
              /\ Len(pending_frames') >= Len(pending_frames) - 1
              /\ Len(pending_frames') <= Len(pending_frames)
              /\ \A p \in 0..next_pipeline_id :
                     Waiting(pending_frames', p) >=
                         Waiting(pending_frames, p) - (IF p = request'.id THEN 1 ELSE 0)
              /\ \A j \in 1..Len(pending_frames') :
                     \E i \in 1..Len(pending_frames) : pending_frames'[j] = pending_frames[i]]_vars

\* A RendererReady took its change out of a queue of two and left the other,
\* which is not for its pipeline, in the queue.
C24_Witness ==
    /\ pc = "set_ids"
    /\ in_grant
    /\ request.msg = "RendererReadyMsg"
    /\ Len(pending_frames) = 1
    /\ pending_frames[1].after.pipeline # request.id
    /\ frame_tree # None
    /\ request.id \in Pipelines(frame_tree[1])

\* C25: in every reachable state no two pending changes have the same pipeline
\* as the root of their `after` tree, and no two have the same Some(id) as
\* their `before`; so at most one pending change waits for any pipeline.
C25_PendingChangesDistinct ==
    /\ \A i, j \in 1..Len(pending_frames) :
           i # j =>
               /\ pending_frames[i].after.pipeline # pending_frames[j].after.pipeline
               /\ is_some(pending_frames[i].before) =>
                      pending_frames[i].before # pending_frames[j].before
    /\ \A p \in 0..next_pipeline_id : Waiting(pending_frames, p) <= 1

\* Two loads from two sub-frames of the current page are pending at once.
C25_Witness ==
    /\ pc = "recv"
    /\ request.msg = "LoadUrlMsg"
    /\ Len(pending_frames) >= 2
    /\ \A i \in 1..Len(pending_frames) :
           /\ is_some(pending_frames[i].before)
           /\ pending_frames[i].before[1] \in Occurring(navigation_context.current)

====
